---- MODULE Spec2Model ----
(***************************************************************************)
(* Model of luigi/s3.py: the S3 client (path decomposition, the existence  *)
(* probe, put) and atomic_s3_file (the writer that stages to a local temp  *)
(* file and puts it to S3 on close).                                       *)
(*                                                                         *)
(* Strings are sequences of one-character strings, so that slicing,       *)
(* concatenation and prefix tests are computed, not assumed.               *)
(***************************************************************************)
EXTENDS Integers, Sequences, FiniteSets, TLC

VARIABLES
    store,      \* the backend: function from <<bucket, key>> to object content
    dir,        \* local temp directory: staging file number -> inode (0 = no file)
    disk,       \* inode -> file content on disk
    wstate,     \* writer -> "new" | "open" | "closed" | "dead"
    wpath,      \* writer -> destination path (self.path)
    tmp,        \* writer -> number in its staging file name (self.__tmp_path)
    ino,        \* writer -> inode its file descriptor refers to
    written,    \* writer -> everything passed to write() so far
    buf,        \* writer -> the part of written still in the file object's buffer
    lastCommit, \* <<bucket, key>> -> written[] of the writer whose put completed last
    committed,  \* the writers one of whose close() calls has completed its put
    last        \* the operation performed by the last step and its outcome

vars == <<store, dir, disk, wstate, wpath, tmp, ino, written, buf, lastCommit,
          committed, last>>

----------------------------------------------------------------------------
(* Bounds *)

MaxRand == 2     \* staging names are drawn from 0..MaxRand-1 (the code: 0..1e10-1)
MaxLen  == 1     \* most characters one writer is given to write

Writers  == {1, 2}  \* the atomic_s3_file objects of a run
TmpNames == 0..(MaxRand - 1)
Bytes    == {"x", "y"}
NUL      == "0"     \* the byte a hole in a file reads as

----------------------------------------------------------------------------
(* Strings *)

Min(S) == CHOOSE x \in S : \A y \in S : x <= y

\* s[i:] with a 1-based i
From(s, i) == SubSeq(s, i, Len(s))

\* s[:i-1] with a 1-based i
Upto(s, i) == SubSeq(s, 1, i - 1)

StartsWith(s, p) == Len(p) <= Len(s) /\ SubSeq(s, 1, Len(p)) = p

\* 1-based index of the first element of s that is in cs, from index i on; 0 if none
Find(s, cs, i) ==
    LET hits == {j \in i..Len(s) : s[j] \in cs}
    IN  IF hits = {} THEN 0 ELSE Min(hits)

Colon == ":"
Slash == "/"

S3_DIRECTORY_MARKER_SUFFIX_0 == <<"_", "$", "f", "o", "l", "d", "e", "r", "$">>
S3_DIRECTORY_MARKER_SUFFIX_1 == <<"/">>

SchemeChars == {"s", "3", "a", "b", "c", "n", "f", "o", "l", "d", "e", "r"}
Digits      == {"3"}

\* urlsplit's scheme step: <<scheme, rest>>. The text before the first colon
\* is the scheme when it is made of scheme characters and what follows is not
\* a port number
split_scheme(url, i) ==
    IF /\ i > 1
       /\ \A j \in 1..(i - 1) : url[j] \in SchemeChars
       /\ (i = Len(url) \/ \E j \in (i + 1)..Len(url) : url[j] \notin Digits)
    THEN <<Upto(url, i), From(url, i + 1)>>
    ELSE <<<<>>, url>>

\* urlsplit's netloc step (_splitnetloc): <<netloc, rest>>; d is the index of
\* the first of / ? # after the leading //, or 0
split_netloc(url, d) ==
    IF Len(url) >= 2 /\ SubSeq(url, 1, 2) = <<Slash, Slash>>
    THEN IF d = 0 THEN <<From(url, 3), <<>>>>
                  ELSE <<SubSeq(url, 3, d - 1), From(url, d)>>
    ELSE <<<<>>, url>>

\* url.split(c, 1) when c occurs at index h of url; <<url, "">> when h = 0
split_once(url, h) ==
    IF h = 0 THEN <<url, <<>>>> ELSE <<Upto(url, h), From(url, h + 1)>>

urlsplit_query(scheme, netloc, pq, fragment) ==
    [scheme |-> scheme, netloc |-> netloc, path |-> pq[1],
     query |-> pq[2], fragment |-> fragment]

urlsplit_fragment(scheme, netloc, uf) ==
    urlsplit_query(scheme, netloc, split_once(uf[1], Find(uf[1], {"?"}, 1)), uf[2])

urlsplit_netloc(scheme, nr) ==
    urlsplit_fragment(scheme, nr[1], split_once(nr[2], Find(nr[2], {"#"}, 1)))

urlsplit_scheme(sr) ==
    urlsplit_netloc(sr[1], split_netloc(sr[2], Find(sr[2], {"/", "?", "#"}, 3)))

\* urlparse.urlsplit(url): the record of the five components
urlsplit(url) == urlsplit_scheme(split_scheme(url, Find(url, {Colon}, 1)))

\* S3Client.path_to_bucket_and_key
path_to_bucket_and_key(path) ==
    LET u == urlsplit(path) IN <<u.netloc, u.path>>

\* is_root that knows the empty key only
is_root_empty_only(key) == Len(key) = 0

\* S3Client.is_root
is_root(key) == (Len(key) = 0) \/ (key = <<Slash>>)

\* remove_prepended_slash that leaves the leading slash in place
remove_prepended_slash_kept(key) == [err |-> FALSE, val |-> key]

\* S3Client.remove_prepended_slash: the else branch names a variable that is
\* not defined in the method or the module, so taking it raises NameError
remove_prepended_slash(key) ==
    IF key # <<>> /\ key[1] = Slash
    THEN [err |-> FALSE, val |-> From(key, 2)]
    ELSE [err |-> TRUE, val |-> <<>>]

----------------------------------------------------------------------------
(* The backend as the client sees it: buckets that validate, and objects   *)
(* looked up, listed and stored under the key string the client passes.    *)

B_b == <<"b">>
B_n == <<"n">>

\* buckets for which s3.get_bucket(bucket, validate=True) succeeds
Buckets == {B_b}

get_bucket(bucket) == bucket \in Buckets

\* s3_bucket.get_key(key): is there an object with this key
get_key(s, bucket, key) == <<bucket, key>> \in DOMAIN s

\* s3_bucket.list(prefix=...): the keys of the bucket that start with prefix
list(s, bucket, prefix) ==
    {bk[2] : bk \in {x \in DOMAIN s : x[1] = bucket /\ StartsWith(x[2], prefix)}}

\* Key(s3_bucket).set_contents_from_filename: one object stored whole under key
set_contents(s, bucket, key, content) ==
    [bk \in DOMAIN s \cup {<<bucket, key>>} |->
        IF bk = <<bucket, key>> THEN content ELSE s[bk]]

----------------------------------------------------------------------------
(* Paths the operations are called with *)

P_a    == <<"s", "3", ":", "/", "/", "b", "/", "a">>             \* s3://b/a
P_ac   == <<"s", "3", ":", "/", "/", "b", "/", "a", "/", "c">>   \* s3://b/a/c
P_root == <<"s", "3", ":", "/", "/", "b">>                       \* s3://b
P_rts  == <<"s", "3", ":", "/", "/", "b", "/">>                  \* s3://b/
P_na   == <<"s", "3", ":", "/", "/", "n", "/", "a">>             \* s3://n/a
P_nroot == <<"s", "3", ":", "/", "/", "n">>                      \* s3://n

Paths == {P_a, P_ac, P_root, P_rts, P_na, P_nroot}

\* path_to_bucket_and_key on the paths in use, computed once
bucket_and_key == [p \in Paths |-> path_to_bucket_and_key(p)]

K_a  == <<"/", "a">>
K_ac == <<"/", "a", "/", "c">>

\* keys of the objects the bucket may hold before the program runs
InitKeys ==
    { K_a, K_a \o S3_DIRECTORY_MARKER_SUFFIX_0, K_a \o S3_DIRECTORY_MARKER_SUFFIX_1,
      K_ac, <<"a", "/", "c">>, <<"a", "b">>, <<"c">> }

Stores == UNION { [{<<B_b, k>> : k \in ks} -> {<<>>}] : ks \in SUBSET InitKeys }

\* exists without the exact-key fetch
exists_in_no_exact(s, bucket, key) ==
    LET k0  == key \o S3_DIRECTORY_MARKER_SUFFIX_0
        k1  == key \o S3_DIRECTORY_MARKER_SUFFIX_1
        pre == remove_prepended_slash(key)
        c1  == << <<"get_bucket", bucket>> >>
        c3  == << <<"get_bucket", bucket>>, <<"get_key", k0>> >>
        c4  == << <<"get_bucket", bucket>>, <<"get_key", k0>>, <<"get_key", k1>> >>
        c5  == << <<"get_bucket", bucket>>, <<"get_key", k0>>, <<"get_key", k1>>,
                  <<"list", pre.val>> >>
    IN  IF ~get_bucket(bucket)          THEN [res |-> "BucketNotFound", calls |-> c1]
        ELSE IF is_root(key)            THEN [res |-> "True", calls |-> c1]
        ELSE IF get_key(s, bucket, k0)  THEN [res |-> "True", calls |-> c3]
        ELSE IF get_key(s, bucket, k1)  THEN [res |-> "True", calls |-> c4]
        ELSE IF pre.err                 THEN [res |-> "NameError", calls |-> c4]
        ELSE IF list(s, bucket, pre.val) # {} THEN [res |-> "True", calls |-> c5]
        ELSE [res |-> "False", calls |-> c5]

\* exists that looks for the first directory marker only
exists_in_one_marker(s, bucket, key) ==
    LET k0  == key \o S3_DIRECTORY_MARKER_SUFFIX_0
        pre == remove_prepended_slash(key)
        c1  == << <<"get_bucket", bucket>> >>
        c2  == << <<"get_bucket", bucket>>, <<"get_key", key>> >>
        c3  == << <<"get_bucket", bucket>>, <<"get_key", key>>, <<"get_key", k0>> >>
        c5  == << <<"get_bucket", bucket>>, <<"get_key", key>>, <<"get_key", k0>>,
                  <<"list", pre.val>> >>
    IN  IF ~get_bucket(bucket)          THEN [res |-> "BucketNotFound", calls |-> c1]
        ELSE IF is_root(key)            THEN [res |-> "True", calls |-> c1]
        ELSE IF get_key(s, bucket, key) THEN [res |-> "True", calls |-> c2]
        ELSE IF get_key(s, bucket, k0)  THEN [res |-> "True", calls |-> c3]
        ELSE IF pre.err                 THEN [res |-> "NameError", calls |-> c3]
        ELSE IF list(s, bucket, pre.val) # {} THEN [res |-> "True", calls |-> c5]
        ELSE [res |-> "False", calls |-> c5]

\* exists that tests for the root before it validates the bucket
exists_in_root_first(s, bucket, key) ==
    LET k0  == key \o S3_DIRECTORY_MARKER_SUFFIX_0
        k1  == key \o S3_DIRECTORY_MARKER_SUFFIX_1
        pre == remove_prepended_slash(key)
        c1  == << <<"get_bucket", bucket>> >>
        c2  == << <<"get_bucket", bucket>>, <<"get_key", key>> >>
        c3  == << <<"get_bucket", bucket>>, <<"get_key", key>>, <<"get_key", k0>> >>
        c4  == << <<"get_bucket", bucket>>, <<"get_key", key>>, <<"get_key", k0>>,
                  <<"get_key", k1>> >>
        c5  == << <<"get_bucket", bucket>>, <<"get_key", key>>, <<"get_key", k0>>,
                  <<"get_key", k1>>, <<"list", pre.val>> >>
    IN  IF is_root(key)                 THEN [res |-> "True", calls |-> <<>>]
        ELSE IF ~get_bucket(bucket)     THEN [res |-> "BucketNotFound", calls |-> c1]
        ELSE IF get_key(s, bucket, key) THEN [res |-> "True", calls |-> c2]
        ELSE IF get_key(s, bucket, k0)  THEN [res |-> "True", calls |-> c3]
        ELSE IF get_key(s, bucket, k1)  THEN [res |-> "True", calls |-> c4]
        ELSE IF pre.err                 THEN [res |-> "NameError", calls |-> c4]
        ELSE IF list(s, bucket, pre.val) # {} THEN [res |-> "True", calls |-> c5]
        ELSE [res |-> "False", calls |-> c5]

\* exists that fetches the "/" marker before the "_$folder$" marker
exists_in_markers_swapped(s, bucket, key) ==
    LET k0  == key \o S3_DIRECTORY_MARKER_SUFFIX_1
        k1  == key \o S3_DIRECTORY_MARKER_SUFFIX_0
        pre == remove_prepended_slash(key)
        c1  == << <<"get_bucket", bucket>> >>
        c2  == << <<"get_bucket", bucket>>, <<"get_key", key>> >>
        c3  == << <<"get_bucket", bucket>>, <<"get_key", key>>, <<"get_key", k0>> >>
        c4  == << <<"get_bucket", bucket>>, <<"get_key", key>>, <<"get_key", k0>>,
                  <<"get_key", k1>> >>
        c5  == << <<"get_bucket", bucket>>, <<"get_key", key>>, <<"get_key", k0>>,
                  <<"get_key", k1>>, <<"list", pre.val>> >>
    IN  IF ~get_bucket(bucket)          THEN [res |-> "BucketNotFound", calls |-> c1]
        ELSE IF is_root(key)            THEN [res |-> "True", calls |-> c1]
        ELSE IF get_key(s, bucket, key) THEN [res |-> "True", calls |-> c2]
        ELSE IF get_key(s, bucket, k0)  THEN [res |-> "True", calls |-> c3]
        ELSE IF get_key(s, bucket, k1)  THEN [res |-> "True", calls |-> c4]
        ELSE IF pre.err                 THEN [res |-> "NameError", calls |-> c4]
        ELSE IF list(s, bucket, pre.val) # {} THEN [res |-> "True", calls |-> c5]
        ELSE [res |-> "False", calls |-> c5]

\* S3Client.exists after the path is decomposed: the result ("True", "False"
\* or the exception raised) and the backend calls made, in order
exists_in(s, bucket, key) ==
    LET k0  == key \o S3_DIRECTORY_MARKER_SUFFIX_0
        k1  == key \o S3_DIRECTORY_MARKER_SUFFIX_1
        pre == remove_prepended_slash(key)
        c1  == << <<"get_bucket", bucket>> >>
        c2  == << <<"get_bucket", bucket>>, <<"get_key", key>> >>
        c3  == << <<"get_bucket", bucket>>, <<"get_key", key>>, <<"get_key", k0>> >>
        c4  == << <<"get_bucket", bucket>>, <<"get_key", key>>, <<"get_key", k0>>,
                  <<"get_key", k1>> >>
        c5  == << <<"get_bucket", bucket>>, <<"get_key", key>>, <<"get_key", k0>>,
                  <<"get_key", k1>>, <<"list", pre.val>> >>
    IN  IF ~get_bucket(bucket)          THEN [res |-> "BucketNotFound", calls |-> c1]
        ELSE IF is_root(key)            THEN [res |-> "True", calls |-> c1]
        ELSE IF get_key(s, bucket, key) THEN [res |-> "True", calls |-> c2]
        ELSE IF get_key(s, bucket, k0)  THEN [res |-> "True", calls |-> c3]
        ELSE IF get_key(s, bucket, k1)  THEN [res |-> "True", calls |-> c4]
        ELSE IF pre.err                 THEN [res |-> "NameError", calls |-> c4]
        ELSE IF list(s, bucket, pre.val) # {} THEN [res |-> "True", calls |-> c5]
        ELSE [res |-> "False", calls |-> c5]

\* S3Client.exists(path)
exists(s, path) ==
    exists_in(s, bucket_and_key[path][1], bucket_and_key[path][2])

NoOp == [op |-> "none", w |-> 0, path |-> <<>>, res |-> "none", calls |-> <<>>]

InitWriters ==
    /\ dir = [n \in TmpNames |-> 0]
    /\ disk = [i \in Writers |-> <<>>]
    /\ wstate = [w \in Writers |-> "new"]
    /\ wpath = [w \in Writers |-> <<>>]
    /\ tmp = [w \in Writers |-> 0]
    /\ ino = [w \in Writers |-> 0]
    /\ written = [w \in Writers |-> <<>>]
    /\ buf = [w \in Writers |-> <<>>]
    /\ lastCommit = <<>>
    /\ committed = {}
    /\ last = NoOp

wvars == <<dir, disk, wstate, wpath, tmp, ino, written, buf, lastCommit, committed>>

\* a call of client.exists(path); it changes nothing in the backend
Exists(path) ==
    /\ LET r == exists(store, path)
       IN  last' = [op |-> "exists", w |-> 0, path |-> path,
                    res |-> r.res, calls |-> r.calls]
    /\ UNCHANGED <<store, wvars>>

InitE == store \in Stores /\ InitWriters

NextE == \E path \in Paths : Exists(path)

SpecE == InitE /\ [][NextE]_vars

----------------------------------------------------------------------------
(* atomic_s3_file: a file object opened for writing on a staging file,     *)
(* whose close() puts the staging file to S3.                              *)

WPaths == {P_a, P_na}

\* the offset of writer w's file descriptor: what it has flushed so far
pos(w) == Len(written[w]) - Len(buf[w])

\* a file's content after data is written at offset off (a descriptor opened
\* with mode 'w' is not in append mode; a gap reads as NUL bytes; writing
\* nothing changes nothing)
pwrite(content, off, data) ==
    LET gap    == IF Len(content) < off THEN off - Len(content) ELSE 0
        padded == content \o [i \in 1..gap |-> NUL]
    IN  IF data = <<>> THEN content
        ELSE SubSeq(padded, 1, off) \o data \o From(padded, off + Len(data) + 1)

\* put whose failed upload leaves the part already sent as the object
put_partial(s, d, dk, local_path, destination, netok) ==
    LET bucket == bucket_and_key[destination][1]
        key    == bucket_and_key[destination][2]
        c1     == << <<"get_bucket", bucket>> >>
        c2     == << <<"get_bucket", bucket>>, <<"put", key>> >>
    IN  IF ~get_bucket(bucket)
            THEN [res |-> "BucketNotFound", calls |-> c1, store |-> s]
        ELSE IF d[local_path] = 0
            THEN [res |-> "IOError", calls |-> c1, store |-> s]
        ELSE IF ~netok
            THEN [res |-> "UploadError", calls |-> c2,
                  store |-> set_contents(s, bucket, key, <<>>)]
        ELSE [res |-> "ok", calls |-> c2,
              store |-> set_contents(s, bucket, key, dk[d[local_path]])]

\* put that stores the object under the whole destination path
put_whole_path(s, d, dk, local_path, destination, netok) ==
    LET bucket == bucket_and_key[destination][1]
        key    == destination
        c1     == << <<"get_bucket", bucket>> >>
        c2     == << <<"get_bucket", bucket>>, <<"put", key>> >>
    IN  IF ~get_bucket(bucket)
            THEN [res |-> "BucketNotFound", calls |-> c1, store |-> s]
        ELSE IF d[local_path] = 0
            THEN [res |-> "IOError", calls |-> c1, store |-> s]
        ELSE IF ~netok
            THEN [res |-> "UploadError", calls |-> c2, store |-> s]
        ELSE [res |-> "ok", calls |-> c2,
              store |-> set_contents(s, bucket, key, dk[d[local_path]])]

\* S3Client.put(local_path, destination): the outcome, the backend calls made
\* and the backend afterwards. d and dk are the temp directory and the disk;
\* netok says whether the backend carries the upload out
put(s, d, dk, local_path, destination, netok) ==
    LET bucket == bucket_and_key[destination][1]
        key    == bucket_and_key[destination][2]
        c1     == << <<"get_bucket", bucket>> >>
        c2     == << <<"get_bucket", bucket>>, <<"put", key>> >>
    IN  IF ~get_bucket(bucket)
            THEN [res |-> "BucketNotFound", calls |-> c1, store |-> s]
        ELSE IF d[local_path] = 0
            THEN [res |-> "IOError", calls |-> c1, store |-> s]
        ELSE IF ~netok
            THEN [res |-> "UploadError", calls |-> c2, store |-> s]
        ELSE [res |-> "ok", calls |-> c2,
              store |-> set_contents(s, bucket, key, dk[d[local_path]])]

\* file.close() of the underlying file object: what is still buffered goes to
\* the inode at the descriptor's offset; closing a closed file does nothing
file_close(dk, w) ==
    IF wstate[w] = "open"
    THEN [dk EXCEPT ![ino[w]] = pwrite(@, pos(w), buf[w])]
    ELSE dk

\* the disk once the inodes that no name in d and no open descriptor refers to
\* are freed; fds is the set of inodes held open
reclaim(dk, d, fds) ==
    [i \in DOMAIN dk |->
        IF i \in fds \/ \E n \in DOMAIN d : d[n] = i THEN dk[i] ELSE <<>>]

\* the inodes the writers other than w hold open
open_inodes(w) == {ino[v] : v \in {u \in Writers : u # w /\ wstate[u] = "open"}}

\* atomic_s3_file.__init__(path, s3_client): r is the number random.randrange
\* returns; open(tmp_path, 'w') creates the file or truncates the one there
atomic_s3_file_init(w, path, r) ==
    /\ wstate[w] = "new"
    /\ \A v \in Writers : v < w => wstate[v] # "new"
    /\ tmp' = [tmp EXCEPT ![w] = r]
    /\ wpath' = [wpath EXCEPT ![w] = path]
    /\ IF dir[r] = 0
       THEN /\ ino' = [ino EXCEPT ![w] = w]
            /\ dir' = [dir EXCEPT ![r] = w]
            /\ disk' = [disk EXCEPT ![w] = <<>>]
       ELSE /\ ino' = [ino EXCEPT ![w] = dir[r]]
            /\ dir' = dir
            /\ disk' = [disk EXCEPT ![dir[r]] = <<>>]
    /\ wstate' = [wstate EXCEPT ![w] = "open"]
    /\ UNCHANGED <<store, written, buf, lastCommit, committed>>

\* a call of atomic_s3_file(path, client)
Construct(w, path, r) ==
    /\ atomic_s3_file_init(w, path, r)
    /\ last' = [op |-> "init", w |-> w, path |-> path, res |-> "ok", calls |-> <<>>]

\* file.write(c) on the open writer: c joins the buffer; fl says whether the
\* file object flushes its buffer to the staging file now
Write(w, c, fl) ==
    /\ wstate[w] = "open"
    /\ Len(written[w]) < MaxLen
    /\ written' = [written EXCEPT ![w] = Append(@, c)]
    /\ IF fl
       THEN /\ disk' = [disk EXCEPT ![ino[w]] = pwrite(@, pos(w), Append(buf[w], c))]
            /\ buf' = [buf EXCEPT ![w] = <<>>]
       ELSE /\ disk' = disk
            /\ buf' = [buf EXCEPT ![w] = Append(@, c)]
    /\ last' = [op |-> "write", w |-> w, path |-> wpath[w], res |-> "ok", calls |-> <<>>]
    /\ UNCHANGED <<store, dir, wstate, wpath, tmp, ino, lastCommit, committed>>

\* close() with its two statements swapped: the put runs before the file is
\* closed, so what is still buffered is not uploaded
close_put_first(w, netok, opname) ==
    LET r  == put(store, dir, disk, tmp[w], wpath[w], netok)
        bk == bucket_and_key[wpath[w]]
    IN  /\ disk' = reclaim(file_close(disk, w), dir, open_inodes(w))
        /\ buf' = [buf EXCEPT ![w] = <<>>]
        /\ wstate' = [wstate EXCEPT ![w] = "closed"]
        /\ store' = r.store
        /\ lastCommit' = IF r.res = "ok"
                         THEN set_contents(lastCommit, bk[1], bk[2], written[w])
                         ELSE lastCommit
        /\ committed' = IF r.res = "ok" THEN committed \cup {w} ELSE committed
        /\ last' = [op |-> opname, w |-> w, path |-> wpath[w],
                    res |-> r.res, calls |-> r.calls]
        /\ UNCHANGED <<dir, wpath, tmp, ino, written>>

\* atomic_s3_file.close(): close the file, then put the staging file to S3
close(w, netok, opname) ==
    LET dk == file_close(disk, w)
        r  == put(store, dir, dk, tmp[w], wpath[w], netok)
        bk == bucket_and_key[wpath[w]]
    IN  /\ disk' = reclaim(dk, dir, open_inodes(w))
        /\ buf' = [buf EXCEPT ![w] = <<>>]
        /\ wstate' = [wstate EXCEPT ![w] = "closed"]
        /\ store' = r.store
        /\ lastCommit' = IF r.res = "ok"
                         THEN set_contents(lastCommit, bk[1], bk[2], written[w])
                         ELSE lastCommit
        /\ committed' = IF r.res = "ok" THEN committed \cup {w} ELSE committed
        /\ last' = [op |-> opname, w |-> w, path |-> wpath[w],
                    res |-> r.res, calls |-> r.calls]
        /\ UNCHANGED <<dir, wpath, tmp, ino, written>>

Close(w, netok) ==
    /\ wstate[w] \in {"open", "closed"}
    /\ close(w, netok, "close")

\* __exit__ without the test of exc_type
exit_commits_always(exc_type) == TRUE

\* the test of exc_type in __exit__: does the exit go on to close the file
exit_commits(exc_type) == ~exc_type

\* atomic_s3_file.__exit__: with an exception (op "exit_exc") it returns at
\* once, without one (op "exit") file.__exit__ calls self.close()
Exit(w, exc_type, netok) ==
    /\ wstate[w] \in {"open", "closed"}
    /\ IF exit_commits(exc_type)
       THEN close(w, netok, IF exc_type THEN "exit_exc" ELSE "exit")
       ELSE /\ last' = [op |-> "exit_exc", w |-> w, path |-> wpath[w],
                        res |-> "none", calls |-> <<>>]
            /\ UNCHANGED <<store, wvars>>

\* __del__ without the os.remove
del_removes_nothing(d, name) == d

\* what __del__ does to the temp directory
del_removes(d, name) ==
    IF d[name] # 0 THEN [d EXCEPT ![name] = 0] ELSE d

\* the writer object is destroyed: __del__ removes the file at tmp_path if
\* there is one, then the file object is deallocated, which closes it; the
\* object's attributes are gone with it
Destroy(w) ==
    /\ wstate[w] \in {"open", "closed"}
    /\ dir' = del_removes(dir, tmp[w])
    /\ disk' = reclaim(file_close(disk, w), dir', open_inodes(w))
    /\ wstate' = [wstate EXCEPT ![w] = "dead"]
    /\ buf' = [buf EXCEPT ![w] = <<>>]
    /\ written' = [written EXCEPT ![w] = <<>>]
    /\ wpath' = [wpath EXCEPT ![w] = <<>>]
    /\ tmp' = [tmp EXCEPT ![w] = 0]
    /\ ino' = [ino EXCEPT ![w] = 0]
    /\ committed' = committed \ {w}
    /\ last' = [op |-> "del", w |-> w, path |-> wpath[w], res |-> "ok", calls |-> <<>>]
    /\ UNCHANGED <<store, lastCommit>>

\* the bucket holds one object, at the key of s3://b/a, before any writer runs
InitStore == [bk \in {<<B_b, K_a>>} |-> <<"z">>]

Init == store = InitStore /\ InitWriters

Next ==
    \/ \E w \in Writers, path \in WPaths, r \in TmpNames : Construct(w, path, r)
    \/ \E w \in Writers, c \in Bytes, fl \in BOOLEAN : Write(w, c, fl)
    \/ \E w \in Writers, netok \in BOOLEAN : Close(w, netok)
    \/ \E w \in Writers, exc_type \in BOOLEAN, netok \in BOOLEAN : Exit(w, exc_type, netok)
    \/ \E w \in Writers : Destroy(w)

Spec == Init /\ [][Next]_vars

----------------------------------------------------------------------------
(* S3Target: a target built from a path, whose open('w') makes the writer. *)

\* s3://b/a:c, a colon in the key
T_keycolon == <<"s", "3", ":", "/", "/", "b", "/", "a", ":", "c">>
\* s3://b/:, a colon that is the last character of the key
T_endcolon == <<"s", "3", ":", "/", "/", "b", "/", ":">>
\* s3://b:3/a, a colon in the bucket part
T_port     == <<"s", "3", ":", "/", "/", "b", ":", "3", "/", "a">>
\* s3://b/a?c:c, a colon in the query
T_query    == <<"s", "3", ":", "/", "/", "b", "/", "a", "?", "c", ":", "c">>
\* s3://b/a#:, a colon in the fragment
T_fragment == <<"s", "3", ":", "/", "/", "b", "/", "a", "#", ":">>

\* the paths S3Target is constructed with
TPaths == {P_a, P_na, T_keycolon, T_endcolon, T_port, T_query, T_fragment}

\* the modes open is called with
Modes == {"r", "w", "a"}

HasColon(s) == \E i \in 1..Len(s) : s[i] = Colon

\* S3Target.__init__ that looks for the colon in the path it was given
S3Target_init_whole_path(path, given, is_tmp) ==
    IF ~given
    THEN IF ~is_tmp THEN [res |-> "AssertionError", path |-> <<>>]
                    ELSE [res |-> "NameError", path |-> <<>>]
    ELSE IF HasColon(path)
         THEN [res |-> "AssertionError", path |-> <<>>]
         ELSE [res |-> "ok", path |-> path]

\* S3Target.__init__(path, is_tmp=...): the outcome and self.path of the new
\* target; given is false when path is None. Without a path, "assert is_tmp"
\* is followed by a call of tmppath, a name the module neither defines nor
\* imports. With a path, the assert looks at the path component of urlsplit
S3Target_init(path, given, is_tmp) ==
    IF ~given
    THEN IF ~is_tmp THEN [res |-> "AssertionError", path |-> <<>>]
                    ELSE [res |-> "NameError", path |-> <<>>]
    ELSE IF HasColon(urlsplit(path).path)
         THEN [res |-> "AssertionError", path |-> <<>>]
         ELSE [res |-> "ok", path |-> path]

\* a call of S3Target(path, is_tmp=is_tmp), or of S3Target(is_tmp=is_tmp) when
\* given is false
NewTarget(path, given, is_tmp) ==
    /\ given \/ path = <<>>
    /\ LET r == S3Target_init(path, given, is_tmp)
       IN  last' = [op |-> "target", w |-> 0, path |-> path, res |-> r.res,
                    calls |-> <<>>, given |-> given, is_tmp |-> is_tmp,
                    target |-> r.path]
    /\ UNCHANGED <<store, wvars>>

\* open without the test for the supported modes
open_outcome_unchecked(mode) ==
    IF mode = "r" THEN "NotImplementedError" ELSE "ok"

\* the tests of mode in S3Target.open
open_outcome(mode) ==
    IF mode \notin {"r", "w"} THEN "ValueError"
    ELSE IF mode = "r" THEN "NotImplementedError"
    ELSE "ok"

\* the paths of the targets open is called on: the constructor accepted them
OpenPaths == {p \in WPaths : S3Target_init(p, TRUE, FALSE).res = "ok"}

\* S3Target(path).open(mode): mode 'w' constructs atomic_s3_file(self.path,
\* self.fs), the other modes raise before anything is made
Open(w, path, mode, r) ==
    /\ path \in OpenPaths
    /\ IF open_outcome(mode) = "ok"
       THEN /\ atomic_s3_file_init(w, path, r)
            /\ last' = [op |-> "open", w |-> w, path |-> path, res |-> "ok",
                        calls |-> <<>>, mode |-> mode]
       ELSE /\ last' = [op |-> "open", w |-> 0, path |-> path,
                        res |-> open_outcome(mode), calls |-> <<>>, mode |-> mode]
            /\ UNCHANGED <<store, wvars>>

NextT ==
    \/ \E path \in TPaths, is_tmp \in BOOLEAN : NewTarget(path, TRUE, is_tmp)
    \/ \E is_tmp \in BOOLEAN : NewTarget(<<>>, FALSE, is_tmp)
    \/ \E w \in Writers, path \in OpenPaths, mode \in Modes, r \in TmpNames :
           Open(w, path, mode, r)
    \/ \E w \in Writers, netok \in BOOLEAN : Close(w, netok)
    \/ \E w \in Writers : Destroy(w)

SpecT == Init /\ [][NextT]_vars

----------------------------------------------------------------------------
(* Writers and the existence probe on one bucket that starts empty *)

WEPaths == {P_a, P_ac}

InitWE == store = <<>> /\ InitWriters

NextWE ==
    \/ \E w \in Writers, path \in WEPaths, r \in TmpNames : Construct(w, path, r)
    \/ \E w \in Writers, netok \in BOOLEAN : Close(w, netok)
    \/ \E w \in Writers : Destroy(w)
    \/ \E path \in WEPaths : Exists(path)

SpecWE == InitWE /\ [][NextWE]_vars

----------------------------------------------------------------------------
(* remove_prepended_slash on its own *)

MaxKeyLen == 6
KeyChars  == {"/", "a"}

\* the keys remove_prepended_slash is called with
Keys == UNION {[1..n -> KeyChars] : n \in 0..MaxKeyLen}

\* a call of client.remove_prepended_slash(key)
Strip(key) ==
    /\ LET r == remove_prepended_slash(key)
       IN  last' = [op |-> "strip", w |-> 0, path |-> key,
                    res |-> IF r.err THEN "NameError" ELSE "ok",
                    calls |-> <<>>, val |-> r.val]
    /\ UNCHANGED <<store, wvars>>

NextK == \E key \in Keys : Strip(key)

SpecK == Init /\ [][NextK]_vars

----------------------------------------------------------------------------
(* Properties of the writer, checked under Spec *)

Closing(op) == op \in {"close", "exit"}

\* the <<bucket, key>> writer w is bound to
Dest(w) == bucket_and_key[wpath[w]]

\* the content of the file at w's staging path once w's buffer is flushed:
\* what a close of w has to upload
Staged(w) ==
    LET i == dir[tmp[w]]
    IN  IF i = ino[w] /\ wstate[w] = "open" THEN pwrite(disk[i], pos(w), buf[w])
        ELSE disk[i]

\* s2 is s with exactly the object at bk replaced by content
Replaced(s, s2, bk, content) ==
    /\ DOMAIN s2 = DOMAIN s \cup {bk}
    /\ s2[bk] = content
    /\ \A x \in DOMAIN s : x # bk => s2[x] = s[x]

\* C1. Atomic visibility: a write changes only the writer's staging file and
\* no backend object; the backend changes only in a step that is a successful
\* close of some writer, and then exactly the object at that writer's
\* destination becomes the complete content of its staging file.
C1_AtomicVisibility ==
    [][ /\ last'.op = "write" =>
              /\ store' = store
              /\ \A i \in DOMAIN disk : i # ino[last'.w] => disk'[i] = disk[i]
        /\ store' # store =>
              /\ Closing(last'.op)
              /\ last'.res = "ok"
              /\ dir[tmp[last'.w]] # 0
              /\ Replaced(store, store', Dest(last'.w), Staged(last'.w))
      ]_vars

\* a writer has just committed staged content over the initial object
C1_Witness ==
    /\ last.op = "close" /\ last.res = "ok"
    /\ Dest(last.w) = <<B_b, K_a>>
    /\ store[<<B_b, K_a>>] \in {<<"x">>, <<"y">>}

\* C2. Round-trip: a successful close of an open writer leaves the object at
\* its destination equal to the concatenation of what was written to it.
C2_RoundTrip ==
    [][ (Closing(last'.op) /\ last'.res = "ok" /\ wstate[last'.w] = "open")
            => store'[Dest(last'.w)] = written[last'.w] ]_vars

\* C3. No commit on failure or abandonment: a scoped exit with an exception,
\* and the destruction of a writer, issue no put-object and leave every
\* backend object as it was.
C3_NoCommitOnFailure ==
    [][ last'.op \in {"exit_exc", "del"} =>
            /\ store' = store
            /\ \A i \in 1..Len(last'.calls) : last'.calls[i][1] # "put" ]_vars

\* a writer with staged data has just left its block with an exception, and
\* the destination still holds the initial object
C3_Witness ==
    /\ last.op = "exit_exc"
    /\ wstate[last.w] = "open" /\ written[last.w] # <<>>
    /\ Dest(last.w) = <<B_b, K_a>>
    /\ store = InitStore

\* C4. Upload failure leaves the destination unchanged: a close that fails
\* (bucket validation, the put, or reading the staging file) changes no
\* backend object.
C4_UploadFailureUnchanged ==
    [][ (Closing(last'.op) /\ last'.res # "ok") => store' = store ]_vars

\* the put of a writer with staged data has just failed in the backend
C4_Witness ==
    /\ last.op = "close" /\ last.res = "UploadError"
    /\ written[last.w] # <<>>
    /\ store = InitStore

\* the close of a writer bound to a bucket that does not exist has just failed
C4_WitnessBucket ==
    /\ last.op = "close" /\ last.res = "BucketNotFound"
    /\ written[last.w] # <<>>

\* C5. Last-writer-wins: the object at a committed key equals the content
\* written by the writer whose upload completed last.
C5_LastWriterWins ==
    \A bk \in DOMAIN lastCommit : store[bk] = lastCommit[bk]

Live(w) == wstate[w] \in {"open", "closed"}

\* C6. Staging-file exclusivity: no two live writers have the same staging
\* file path.
C6_StagingExclusive ==
    \A w, v \in Writers : (w # v /\ Live(w) /\ Live(v)) => tmp[w] # tmp[v]

\* C7 as stated: once a writer's commit has finished no file is left at its
\* staging path.
C7_CleanupAfterCommit ==
    \A w \in Writers : wstate[w] = "closed" => dir[tmp[w]] = 0

\* C7 as amended: the destruction of a writer (after a commit attempt or
\* without one) leaves no file at that writer's staging path.
C7_CleanupOnDestroy ==
    [][ last'.op = "del" => dir'[tmp[last'.w]] = 0 ]_vars

\* a writer that had committed has just been destroyed and its staging file
\* is gone
C7_Witness ==
    /\ last.op = "del"
    /\ store[<<B_b, K_a>>] # <<"z">>
    /\ \A n \in TmpNames : dir[n] = 0

----------------------------------------------------------------------------
(* Properties of the existence probe, checked under SpecE. In a state whose *)
(* last step was Exists(path), last holds the path, the result and the      *)
(* calls made, and store is the backend that was probed.                    *)

Probed == last.op = "exists"

PBucket == urlsplit(last.path).netloc
PKey    == urlsplit(last.path).path

HasObject(bucket, key) == <<bucket, key>> \in DOMAIN store

HasMarker(bucket, key) ==
    \/ HasObject(bucket, key \o <<"_", "$", "f", "o", "l", "d", "e", "r", "$">>)
    \/ HasObject(bucket, key \o <<"/">>)

\* the key without its leading slash, if it has one
StripLeadingSlash(key) ==
    IF key # <<>> /\ key[1] = "/" THEN SubSeq(key, 2, Len(key)) ELSE key

HasPrefixed(bucket, prefix) ==
    \E bk \in DOMAIN store :
        /\ bk[1] = bucket
        /\ Len(prefix) <= Len(bk[2])
        /\ \A i \in 1..Len(prefix) : bk[2][i] = prefix[i]

NonRootInBucket == PBucket \in Buckets /\ PKey # <<>> /\ PKey # <<"/">>

\* C8. Exact-match existence: for a non-root key with an object stored at
\* exactly that key in a valid bucket, exists returns true after the bucket
\* validation and the exact-key fetch alone.
C8_ExactMatch ==
    (Probed /\ NonRootInBucket /\ HasObject(PBucket, PKey)) =>
        /\ last.res = "True"
        /\ last.calls = << <<"get_bucket", PBucket>>, <<"get_key", PKey>> >>

\* exists has just answered for s3://b/a with an object at /a and other
\* objects that a marker fetch or a list call would have found
C8_Witness ==
    /\ Probed /\ last.path = P_a /\ last.res = "True"
    /\ HasObject(B_b, K_a) /\ HasMarker(B_b, K_a) /\ HasPrefixed(B_b, <<"a">>)

\* C9. Directory-marker existence: for a non-root key in a valid bucket with
\* no object at the key but one at key + "_$folder$" or key + "/", exists
\* returns true.
C9_DirectoryMarker ==
    (Probed /\ NonRootInBucket /\ ~HasObject(PBucket, PKey) /\ HasMarker(PBucket, PKey))
        => last.res = "True"

\* exists has just answered true for s3://b/a when the only object in the
\* bucket is the marker /a/
C9_Witness ==
    /\ Probed /\ last.path = P_a /\ last.res = "True"
    /\ DOMAIN store = {<<B_b, <<"/", "a", "/">>>>}

\* C10. Prefix inference and the false result: for a non-root key in a valid
\* bucket with no object at the key or at either marker, exists returns true
\* if some stored key has the prefix StripLeadingSlash(key) and false if none
\* has; and exists returns false in no other situation.
C10_PrefixInference ==
    Probed =>
        /\ (NonRootInBucket /\ ~HasObject(PBucket, PKey) /\ ~HasMarker(PBucket, PKey))
             => last.res = IF HasPrefixed(PBucket, StripLeadingSlash(PKey))
                           THEN "True" ELSE "False"
        /\ last.res = "False" =>
             /\ NonRootInBucket
             /\ ~HasObject(PBucket, PKey) /\ ~HasMarker(PBucket, PKey)
             /\ ~HasPrefixed(PBucket, StripLeadingSlash(PKey))

\* exists has just answered true for s3://b/a by inference from the object
\* a/c alone
C10_Witness ==
    /\ Probed /\ last.path = P_a /\ last.res = "True"
    /\ DOMAIN store = {<<B_b, <<"a", "/", "c">>>>}

\* exists has just answered false for s3://b/a although the bucket holds
\* objects, none of them under the prefix
C10_WitnessFalse ==
    /\ Probed /\ last.path = P_a /\ last.res = "False"
    /\ DOMAIN store = {<<B_b, <<"c">>>>, <<B_b, K_ac>>}

Root == PKey = <<>> \/ PKey = <<"/">>

\* C11. Root existence: for a key that is empty or "/" in a valid bucket,
\* exists returns true after the bucket validation alone, whatever objects
\* the bucket holds.
C11_RootExists ==
    (Probed /\ PBucket \in Buckets /\ Root) =>
        /\ last.res = "True"
        /\ last.calls = << <<"get_bucket", PBucket>> >>

\* exists has just answered true for s3://b/ on a bucket with no object
C11_Witness ==
    /\ Probed /\ last.path = P_rts /\ last.res = "True"
    /\ DOMAIN store = {}

\* exists has just answered true for s3://b on a bucket that holds objects
C11_WitnessEmptyKey ==
    /\ Probed /\ last.path = P_root /\ last.res = "True"
    /\ DOMAIN store # {}

\* C12. Missing bucket: on a path whose bucket does not exist, exists fails
\* with the bucket-validation error, for root keys too, and makes no call
\* after the validation.
C12_MissingBucket ==
    (Probed /\ PBucket \notin Buckets) =>
        /\ last.res = "BucketNotFound"
        /\ last.calls = << <<"get_bucket", PBucket>> >>

\* exists has just failed for the root of a bucket that does not exist
C12_Witness ==
    /\ Probed /\ last.path = P_nroot /\ last.res = "BucketNotFound"

\* the five round-trips of a probe of <<bucket, key>>, in order
ProbeOrder(bucket, key) ==
    << <<"get_bucket", bucket>>,
       <<"get_key", key>>,
       <<"get_key", key \o <<"_", "$", "f", "o", "l", "d", "e", "r", "$">>>>,
       <<"get_key", key \o <<"/">>>>,
       <<"list", StripLeadingSlash(key)>> >>

\* what round-trip i of the probe finds (round-trip 1 validates the bucket)
ProbeFinds(i) ==
    CASE i = 2 -> HasObject(PBucket, PKey)
      [] i = 3 -> HasObject(PBucket, PKey \o <<"_", "$", "f", "o", "l", "d", "e", "r", "$">>)
      [] i = 4 -> HasObject(PBucket, PKey \o <<"/">>)
      [] i = 5 -> HasPrefixed(PBucket, StripLeadingSlash(PKey))
      [] OTHER -> FALSE

\* C16. Probe ordering: the calls of a run of exists are an initial part of
\* the fixed order (validation, exact key, "_$folder$" marker, "/" marker,
\* list), at most five; a call is made only when every earlier fetch found
\* nothing, and the run goes on to the next call exactly when the bucket is
\* valid, the key is not the root and the last fetch found nothing.
C16_ProbeOrder ==
    Probed =>
        LET n == Len(last.calls)
        IN  /\ n \in 1..5
            /\ last.calls = SubSeq(ProbeOrder(PBucket, PKey), 1, n)
            /\ \A i \in 2..(n - 1) : ~ProbeFinds(i)
            /\ n < 5 => \/ PBucket \notin Buckets
                        \/ Root
                        \/ ProbeFinds(n)

\* exists has just made all five calls for s3://b/a and found nothing
C16_Witness ==
    /\ Probed /\ last.path = P_a /\ Len(last.calls) = 5 /\ last.res = "False"

\* exists has just stopped at the "/" marker of s3://b/a
C16_WitnessMarker ==
    /\ Probed /\ last.path = P_a /\ Len(last.calls) = 4 /\ last.res = "True"

----------------------------------------------------------------------------
(* Properties of S3Target, checked under SpecT *)

\* C13. Open modes: open('w') makes a new writer on the target's path, with
\* its staging file; open('r') fails with NotImplementedError and any other
\* mode with ValueError, and a failing open leaves the temp directory, the
\* disk, the writers and the backend as they were.
C13_OpenModes ==
    [][ last'.op = "open" =>
          IF last'.mode = "w"
          THEN /\ last'.res = "ok"
               /\ wstate[last'.w] = "new" /\ wstate'[last'.w] = "open"
               /\ wpath'[last'.w] = last'.path
               /\ dir'[tmp'[last'.w]] = ino'[last'.w] /\ ino'[last'.w] # 0
               /\ store' = store
          ELSE /\ last'.res = IF last'.mode = "r" THEN "NotImplementedError"
                                                 ELSE "ValueError"
               /\ UNCHANGED <<store, dir, disk, wstate, wpath, tmp, ino>>
      ]_vars

\* open('w') on the target of s3://b/a has just returned a writer
C13_Witness ==
    /\ last.op = "open" /\ last.mode = "w" /\ last.res = "ok"
    /\ wstate[last.w] = "open" /\ wpath[last.w] = P_a

\* open with an unsupported mode has just failed while a writer is open
C13_WitnessUnsupported ==
    /\ last.op = "open" /\ last.mode = "a" /\ last.res = "ValueError"
    /\ \E w \in Writers : wstate[w] = "open"

\* the part of an s3://bucket/key?query#fragment URI that becomes the key
PathComponent(uri) ==
    LET rest == From(uri, 6)
        d    == Find(rest, {"/"}, 1)
        tail == IF d = 0 THEN <<>> ELSE From(rest, d)
        e    == Find(tail, {"?", "#"}, 1)
    IN  IF e = 0 THEN tail ELSE Upto(tail, e)

\* C14. Colon rejection: constructing a target from a path fails with the
\* assertion error exactly when the path component of the URI contains a
\* colon; otherwise the target is made with that path, and a failed
\* construction yields no target.
C14_ColonRejected ==
    (last.op = "target" /\ last.given) =>
        /\ last.res = "AssertionError" <=> HasColon(PathComponent(last.path))
        /\ last.res \in {"AssertionError", "ok"}
        /\ last.target = IF last.res = "ok" THEN last.path ELSE <<>>

\* the construction from s3://b/a:c has just been rejected
C14_Witness ==
    /\ last.op = "target" /\ last.path = T_keycolon
    /\ last.res = "AssertionError"

\* the construction from s3://b:3/a has just succeeded
C14_WitnessBucketColon ==
    /\ last.op = "target" /\ last.path = T_port /\ last.res = "ok"

\* C15. Pathless construction: constructing a target without a path succeeds
\* exactly when the target is marked temporary.
C15_PathlessConstruction ==
    (last.op = "target" /\ ~last.given) =>
        (last.res = "ok" <=> last.is_tmp)

----------------------------------------------------------------------------
(* Properties of writers and probes together, checked under SpecWE *)

\* some close of a writer on the probed path has completed its put
CommittedTo(bucket, key) == <<bucket, key>> \in DOMAIN lastCommit

\* C17. Commit implies existence: once a close on a non-root path in an
\* existing bucket has succeeded (nothing deletes objects), exists on that
\* path returns true, at the fetch of the exact key.
C17_CommitImpliesExists ==
    (Probed /\ NonRootInBucket /\ CommittedTo(PBucket, PKey)) =>
        /\ last.res = "True"
        /\ last.calls = << <<"get_bucket", PBucket>>, <<"get_key", PKey>> >>

\* exists has just answered true for s3://b/a/c, which a writer committed to
C17_Witness ==
    /\ Probed /\ last.path = P_ac /\ CommittedTo(B_b, K_ac)
    /\ last.res = "True"

----------------------------------------------------------------------------
(* More properties of the writer, checked under Spec *)

IsPut(call) == call[1] = "put"

\* C19. At most one upload per writer: a close (or an exit that closes) of a
\* writer one of whose closes has already succeeded makes no put call and
\* leaves the backend as it was.
C19_OneUploadPerWriter ==
    [][ (Closing(last'.op) /\ last'.w \in committed) =>
          /\ \A i \in 1..Len(last'.calls) : ~IsPut(last'.calls[i])
          /\ store' = store
      ]_vars

----------------------------------------------------------------------------
(* Property of remove_prepended_slash, checked under SpecK *)

\* C20. stripLeadingSlash returns the key without its first character when
\* the key starts with "/", and the key itself, without failing, when the key
\* is empty or starts with another character.
C20_StripLeadingSlash ==
    last.op = "strip" =>
        /\ last.res = "ok"
        /\ last.val = StripLeadingSlash(last.path)

====
